---- MODULE Spec2Model ----
(***************************************************************************)
(* Model of backend/python/dynamic_allocation.py: DynamicAllocationService *)
(* (regime-aware portfolio allocation).  One call of                       *)
(* calculate_dynamic_allocation is a run of the state machine below; its   *)
(* stages are the method calls of lines 52-134 in source order.            *)
(*                                                                         *)
(* Numbers.  The program computes with IEEE doubles; the model computes    *)
(* with exact rationals <<n, d>> (d > 0, lowest terms) and with one extra  *)
(* value, NaN == <<0, 0>>, which numpy produces for 0/0.  Every formula    *)
(* below that the program states "within 1e-6" is stated exactly here.     *)
(*                                                                         *)
(* Symbols are sequences of one-character strings, so that the program's   *)
(* substring tests (`'QQQ' in symbol.upper()`) are computed, not assumed.  *)
(***************************************************************************)
EXTENDS Integers, Sequences, FiniteSets, TLC

(***************************************************************************)
(* Bounds of the model (not program constants).                            *)
(***************************************************************************)
\* current_weights entries are drawn from {0/CurSteps, ..., CurSteps/CurSteps}
CurSteps == 2
\* regime_confidence is drawn from {0/ConfSteps, ..., ConfSteps/ConfSteps}
ConfSteps == 1
\* a converged SLSQP result is drawn from the grid of step 1/OptSteps
OptSteps == 5
\* a converged SLSQP result is one of the first OptPoints points of that grid
OptPoints == 1
\* the unconstrained Black-Litterman solution is drawn from (-1..RawMax)^N
RawMax == 1
\* the first NumPortfolios entries of Portfolios are used
NumPortfolios == 5

(***************************************************************************)
(* Exact rational arithmetic with NaN.                                     *)
(***************************************************************************)
RECURSIVE Gcd(_, _)
Gcd(a, b) == IF b = 0 THEN a ELSE Gcd(b, a % b)

Abs(i) == IF i < 0 THEN -i ELSE i

NaN == <<0, 0>>
IsNaN(x) == x[2] = 0

\* the rational n/d in lowest terms with a positive denominator
Rat(n, d) ==
    IF d = 0 THEN NaN
    ELSE LET g == Gcd(Abs(n), Abs(d))
             s == IF d < 0 THEN -1 ELSE 1
         IN  <<s * (n \div g), s * (d \div g)>>

Zero == <<0, 1>>
One == <<1, 1>>

RAdd(x, y) ==
    IF IsNaN(x) \/ IsNaN(y) THEN NaN
    ELSE LET g == Gcd(x[2], y[2])
         IN  Rat(x[1] * (y[2] \div g) + y[1] * (x[2] \div g), (x[2] \div g) * y[2])

RNeg(x) == <<-x[1], x[2]>>
RSub(x, y) == RAdd(x, RNeg(y))

RMul(x, y) ==
    IF IsNaN(x) \/ IsNaN(y) THEN NaN
    ELSE LET g1 == Gcd(Abs(x[1]), y[2])
             g2 == Gcd(Abs(y[1]), x[2])
         IN  Rat((x[1] \div g1) * (y[1] \div g2), (x[2] \div g2) * (y[2] \div g1))

\* float division as numpy performs it on the values that reach it: 0/0 is NaN
RDiv(x, y) ==
    IF IsNaN(x) \/ IsNaN(y) \/ y[1] = 0 THEN NaN
    ELSE RMul(x, Rat(y[2], y[1]))

\* comparisons; every comparison with NaN is false, as in IEEE arithmetic
RLt(x, y) == ~IsNaN(x) /\ ~IsNaN(y) /\ RSub(x, y)[1] < 0
RGt(x, y) == RLt(y, x)
RLe(x, y) == ~IsNaN(x) /\ ~IsNaN(y) /\ RSub(x, y)[1] <= 0
RGe(x, y) == RLe(y, x)
RAbs(x) == <<Abs(x[1]), x[2]>>

RECURSIVE SumTo(_, _)
SumTo(w, k) == IF k = 0 THEN Zero ELSE RAdd(SumTo(w, k - 1), w[k])
\* sum(...) / np.sum(...) over a weight vector
RSum(w) == SumTo(w, Len(w))

\* the vector <<F(1), ..., F(n)>>, every entry computed once
RECURSIVE Vec(_, _)
Vec(F(_), n) == IF n = 0 THEN <<>> ELSE Append(Vec(F, n - 1), F(n))

(***************************************************************************)
(* Strings: str.upper() and the `in` substring test.                       *)
(***************************************************************************)
LowerLetters == <<"a","b","c","d","e","f","g","h","i","j","k","l","m",
                  "n","o","p","q","r","s","t","u","v","w","x","y","z">>
UpperLetters == <<"A","B","C","D","E","F","G","H","I","J","K","L","M",
                  "N","O","P","Q","R","S","T","U","V","W","X","Y","Z">>

UpperChar(c) ==
    IF \E i \in 1..26 : LowerLetters[i] = c
    THEN UpperLetters[CHOOSE i \in 1..26 : LowerLetters[i] = c]
    ELSE c

\* symbol.upper()
Upper(sym) == LET U(i) == UpperChar(sym[i]) IN Vec(U, Len(sym))

\* pat in s
Contains(s, pat) ==
    \E i \in 1..(Len(s) - Len(pat) + 1) : SubSeq(s, i, i + Len(pat) - 1) = pat

\* any(p in symbol.upper() for p in patterns)
AnyIn(patterns, sym) == \E p \in patterns : Contains(Upper(sym), p)

QQQ == <<"Q","Q","Q">>
TQQQ == <<"T","Q","Q","Q">>
ARKK == <<"A","R","K","K">>
TLT == <<"T","L","T">>
GLD == <<"G","L","D">>
VTI == <<"V","T","I">>
BND == <<"B","N","D">>
AGG == <<"A","G","G">>
IEF == <<"I","E","F">>
SHY == <<"S","H","Y">>
SPY == <<"S","P","Y">>
IWM == <<"I","W","M">>
AAPL == <<"A","A","P","L">>
MSFT == <<"M","S","F","T">>
GOOGL == <<"G","O","O","G","L">>
SLV == <<"S","L","V">>
USO == <<"U","S","O">>
DBC == <<"D","B","C">>
EFA == <<"E","F","A">>
EEM == <<"E","E","M">>
VEA == <<"V","E","A">>
VWO == <<"V","W","O">>

(***************************************************************************)
(* DynamicAllocationService.__init__: the configuration dictionaries.      *)
(***************************************************************************)
allocation_constraints ==
    [min_weight |-> Zero, max_weight |-> Rat(2, 5), max_turnover |-> Rat(1, 5),
     min_diversification |-> 3, cash_buffer |-> Rat(1, 20)]

risk_params ==
    [target_volatility |-> Rat(3, 20), max_drawdown |-> Rat(1, 10),
     var_confidence |-> Rat(1, 20), rebalancing_threshold |-> Rat(1, 20)]

\* lines 28-33
regime_risk_adjustments ==
    [Bull |-> Rat(11, 10), Bear |-> Rat(3, 5), Volatile |-> Rat(7, 10), Stable |-> One]

\* the three dictionaries __init__ binds to self (lines 26-50)
ServiceConfiguration ==
    [regime_risk_adjustments |-> regime_risk_adjustments,
     allocation_constraints |-> allocation_constraints,
     risk_params |-> risk_params]

Regimes == {"Bull", "Bear", "Volatile", "Stable"}

\* lines 286-307
calculate_adjusted_risk_target(market_regime, regime_confidence) ==
    LET base_risk == risk_params.target_volatility
        regime_adjustment == IF market_regime \in DOMAIN regime_risk_adjustments
                             THEN regime_risk_adjustments[market_regime] ELSE One
        confidence_adjustment ==
            RAdd(One, RMul(RSub(regime_confidence, Rat(1, 2)), Rat(2, 5)))
        adjusted_risk == RMul(RMul(base_risk, regime_adjustment), confidence_adjustment)
        min_risk == RMul(base_risk, Rat(1, 2))
        max_risk == RMul(base_risk, Rat(3, 2))
        capped == IF RLt(adjusted_risk, max_risk) THEN adjusted_risk ELSE max_risk
    IN  IF RGt(capped, min_risk) THEN capped ELSE min_risk

(***************************************************************************)
(* estimate_asset_correlation (lines 244-284); the result is in hundredths.*)
(***************************************************************************)
equity_symbols == {SPY, QQQ, IWM, VTI, AAPL, MSFT, GOOGL}
bond_symbols == {TLT, BND, AGG, IEF, SHY}
commodity_symbols == {GLD, SLV, USO, DBC}
international_symbols == {EFA, EEM, VEA, VWO}

\* mutant: the commodity rule tested before the bond rule
estimate_asset_correlation_commodity_first(symbol1, symbol2) ==
    LET s1_equity == AnyIn(equity_symbols, symbol1)
        s2_equity == AnyIn(equity_symbols, symbol2)
        s1_bond == AnyIn(bond_symbols, symbol1)
        s2_bond == AnyIn(bond_symbols, symbol2)
        s1_commodity == AnyIn(commodity_symbols, symbol1)
        s2_commodity == AnyIn(commodity_symbols, symbol2)
        s1_intl == AnyIn(international_symbols, symbol1)
        s2_intl == AnyIn(international_symbols, symbol2)
    IN  IF s1_equity /\ s2_equity
        THEN (IF s1_intl \/ s2_intl THEN 70 ELSE 85)
        ELSE IF s1_commodity /\ s2_commodity THEN 60
        ELSE IF s1_bond /\ s2_bond THEN 80
        ELSE IF (s1_equity /\ s2_bond) \/ (s1_bond /\ s2_equity) THEN -20
        ELSE IF (s1_equity /\ s2_commodity) \/ (s1_commodity /\ s2_equity) THEN 30
        ELSE IF (s1_bond /\ s2_commodity) \/ (s1_commodity /\ s2_bond) THEN 10
        ELSE 50

estimate_asset_correlation(symbol1, symbol2) ==
    LET s1_equity == AnyIn(equity_symbols, symbol1)
        s2_equity == AnyIn(equity_symbols, symbol2)
        s1_bond == AnyIn(bond_symbols, symbol1)
        s2_bond == AnyIn(bond_symbols, symbol2)
        s1_commodity == AnyIn(commodity_symbols, symbol1)
        s2_commodity == AnyIn(commodity_symbols, symbol2)
        s1_intl == AnyIn(international_symbols, symbol1)
        s2_intl == AnyIn(international_symbols, symbol2)
    IN  IF s1_equity /\ s2_equity
        THEN (IF s1_intl \/ s2_intl THEN 70 ELSE 85)
        ELSE IF s1_bond /\ s2_bond THEN 80
        ELSE IF s1_commodity /\ s2_commodity THEN 60
        ELSE IF (s1_equity /\ s2_bond) \/ (s1_bond /\ s2_equity) THEN -20
        ELSE IF (s1_equity /\ s2_commodity) \/ (s1_commodity /\ s2_equity) THEN 30
        ELSE IF (s1_bond /\ s2_commodity) \/ (s1_commodity /\ s2_bond) THEN 10
        ELSE 50

\* lines 216-225: np.eye, then both triangles from the pairs i < j
correlation_matrix(syms) ==
    LET Entry(i, j) == IF i = j THEN 100
                       ELSE IF i < j THEN estimate_asset_correlation(syms[i], syms[j])
                       ELSE estimate_asset_correlation(syms[j], syms[i])
        Row(i) == LET Cell(j) == Entry(i, j) IN Vec(Cell, Len(syms))
    IN  Vec(Row, Len(syms))

(***************************************************************************)
(* apply_regime_tilts (lines 539-602).                                     *)
(***************************************************************************)
\* mutant: the sign of Bull's growth_bias flipped
regime_tilts_growth_sign_flipped(market_regime) ==
    CASE market_regime = "Bull" ->
           [k \in {"growth_bias", "reduce_bonds", "increase_momentum"} |->
              CASE k = "growth_bias" -> Rat(-1, 10)
                [] k = "reduce_bonds" -> Rat(-1, 20)
                [] k = "increase_momentum" -> Rat(1, 20)]
      [] market_regime = "Bear" ->
           [k \in {"defensive_bias", "reduce_growth", "increase_bonds", "add_gold"} |->
              CASE k = "defensive_bias" -> Rat(3, 20)
                [] k = "reduce_growth" -> Rat(-1, 10)
                [] k = "increase_bonds" -> Rat(1, 10)
                [] k = "add_gold" -> Rat(1, 20)]
      [] OTHER -> [k \in {} |-> Zero]

\* the regime_tilts table, lines 547-567; .get(market_regime, {}) at line 569
regime_tilts(market_regime) ==
    CASE market_regime = "Bull" ->
           [k \in {"growth_bias", "reduce_bonds", "increase_momentum"} |->
              CASE k = "growth_bias" -> Rat(1, 10)
                [] k = "reduce_bonds" -> Rat(-1, 20)
                [] k = "increase_momentum" -> Rat(1, 20)]
      [] market_regime = "Bear" ->
           [k \in {"defensive_bias", "reduce_growth", "increase_bonds", "add_gold"} |->
              CASE k = "defensive_bias" -> Rat(3, 20)
                [] k = "reduce_growth" -> Rat(-1, 10)
                [] k = "increase_bonds" -> Rat(1, 10)
                [] k = "add_gold" -> Rat(1, 20)]
      [] market_regime = "Volatile" ->
           [k \in {"reduce_concentration", "add_volatility_hedge", "reduce_leverage"} |->
              CASE k = "reduce_concentration" -> Rat(1, 10)
                [] k = "add_volatility_hedge" -> Rat(1, 20)
                [] k = "reduce_leverage" -> Rat(-1, 20)]
      [] market_regime = "Stable" ->
           [k \in {"balanced_approach"} |-> Zero]
      [] OTHER -> [k \in {} |-> Zero]

growth_tags == {QQQ, TQQQ, ARKK}
defensive_tags == {TLT, GLD, VTI}
bond_tags == {TLT, BND, AGG}

\* mutant: Volatile's reduce_concentration applied to the growth tags
tilt_adjustment_reduce_concentration(symbol, market_regime, regime_confidence) ==
    LET tilts == regime_tilts(market_regime)
    IN  IF "reduce_concentration" \in DOMAIN tilts /\ AnyIn(growth_tags, symbol)
        THEN RMul(tilts["reduce_concentration"], regime_confidence)
        ELSE Zero

\* lines 573-588: the additive adjustment of one symbol
tilt_adjustment(symbol, market_regime, regime_confidence) ==
    LET tilts == regime_tilts(market_regime)
        Has(k) == k \in DOMAIN tilts
        a1 == IF Has("growth_bias") /\ AnyIn(growth_tags, symbol)
              THEN RMul(tilts["growth_bias"], regime_confidence) ELSE Zero
        a2 == IF Has("defensive_bias") /\ AnyIn(defensive_tags, symbol)
              THEN RMul(tilts["defensive_bias"], regime_confidence) ELSE Zero
        a3 == IF Has("reduce_bonds") /\ AnyIn(bond_tags, symbol)
              THEN RMul(tilts["reduce_bonds"], regime_confidence)
              ELSE IF Has("increase_bonds") /\ AnyIn(bond_tags, symbol)
              THEN RMul(tilts["increase_bonds"], regime_confidence)
              ELSE Zero
    IN  RAdd(RAdd(a1, a2), a3)

\* Python's max(0, x): x when x > 0, else 0 (so max(0, nan) is 0)
PyMax0(x) == IF RGt(x, Zero) THEN x ELSE Zero

\* line 591
tilt_clip(x) == PyMax0(x)

\* mutant: the renormalization left out
renormalize_skipped(w) == w

\* lines 593-596 and 646-650: divide by the total when it is positive
renormalize(w) ==
    LET total_weight == RSum(w)
        Normalized(i) == RDiv(w[i], total_weight)
    IN  IF RGt(total_weight, Zero) THEN Vec(Normalized, Len(w)) ELSE w

apply_regime_tilts(symbols, optimal_weights, market_regime, regime_confidence) ==
    LET Tilted(i) ==
            tilt_clip(RAdd(optimal_weights[i],
                           tilt_adjustment(symbols[i], market_regime, regime_confidence)))
    IN  renormalize(Vec(Tilted, Len(symbols)))

(***************************************************************************)
(* apply_allocation_constraints (lines 604-656), step by step.             *)
(***************************************************************************)
\* lines 611-614
cap_max_weight(w) ==
    LET Capped(i) == IF RGt(w[i], allocation_constraints.max_weight)
                     THEN allocation_constraints.max_weight ELSE w[i]
    IN  Vec(Capped, Len(w))

\* lines 616-619
zero_below_min(w) ==
    LET Floored(i) == IF RLt(w[i], allocation_constraints.min_weight) THEN Zero ELSE w[i]
    IN  Vec(Floored, Len(w))

\* position of index i in sorted(symbols, key=weight, reverse=True): the sort is
\* stable, so equal weights keep their order in symbols
sort_rank(w, i) ==
    Cardinality({j \in 1..Len(w) : RGt(w[j], w[i]) \/ (w[j] = w[i] /\ j < i)})

\* mutant: the diversification floor left out
ensure_min_diversification_skipped(w) == w

\* lines 621-630
ensure_min_diversification(w) ==
    LET non_zero_positions == Cardinality({i \in 1..Len(w) : RGt(w[i], Rat(1, 100))})
        min_positions == allocation_constraints.min_diversification
        Forced(i) == IF sort_rank(w, i) < min_positions /\ RLt(w[i], Rat(1, 20))
                     THEN Rat(1, 20) ELSE w[i]
    IN  IF non_zero_positions < min_positions THEN Vec(Forced, Len(w)) ELSE w

\* line 633
total_turnover(w, current_weights) ==
    LET Change(i) == RAbs(RSub(w[i], current_weights[i]))
    IN  RSum(Vec(Change, Len(w)))

\* mutant: the scale inverted (total_turnover / max_turnover)
limit_turnover_scale_inverted(w, current_weights) ==
    LET turnover == total_turnover(w, current_weights)
        turnover_scale == RDiv(turnover, allocation_constraints.max_turnover)
        Scaled(i) == RAdd(current_weights[i],
                          RMul(RSub(w[i], current_weights[i]), turnover_scale))
    IN  IF RGt(turnover, allocation_constraints.max_turnover)
        THEN Vec(Scaled, Len(w)) ELSE w

\* lines 632-644
limit_turnover(w, current_weights) ==
    LET turnover == total_turnover(w, current_weights)
        turnover_scale == RDiv(allocation_constraints.max_turnover, turnover)
        Scaled(i) == RAdd(current_weights[i],
                          RMul(RSub(w[i], current_weights[i]), turnover_scale))
    IN  IF RGt(turnover, allocation_constraints.max_turnover)
        THEN Vec(Scaled, Len(w)) ELSE w

\* mutant: the turnover step moved in front of the bound and diversification steps
apply_allocation_constraints_turnover_first(weights, current_weights) ==
    renormalize(
        ensure_min_diversification(zero_below_min(cap_max_weight(
            limit_turnover(weights, current_weights)))))

apply_allocation_constraints(weights, current_weights) ==
    renormalize(
        limit_turnover(
            ensure_min_diversification(zero_below_min(cap_max_weight(weights))),
            current_weights))

(***************************************************************************)
(* The optimizer suite (lines 309-537).  scipy's SLSQP is not modelled: a  *)
(* solve either reports success with a point inside its bounds that sums   *)
(* to 1, or the method returns equal weights (lines 390-398).              *)
(***************************************************************************)
\* mutant: a failed optimizer leaves no candidate
equal_weights_missing(n) == <<>>

\* np.ones(n) / n
equal_weights(n) == LET E(i) == Rat(1, n) IN Vec(E, n)

RECURSIVE IntSum(_, _)
IntSum(k, n) == IF n = 0 THEN 0 ELSE IntSum(k, n - 1) + k[n]

\* position of the grid point k in lexicographic order
RECURSIVE LexKey(_, _)
LexKey(k, n) == IF n = 0 THEN 0 ELSE LexKey(k, n - 1) * (OptSteps + 1) + k[n]

\* the points k/OptSteps of the grid with lo <= k[i]/OptSteps <= hi that sum to 1
FeasibleGrid(n, lo, hi) ==
    {k \in [1..n -> 0..OptSteps] :
        /\ IntSum(k, n) = OptSteps
        /\ \A i \in 1..n : RGe(Rat(k[i], OptSteps), lo) /\ RLe(Rat(k[i], OptSteps), hi)}

\* minimize(..., method='SLSQP', bounds, constraints) with result.success:
\* result.x is one of the first OptPoints feasible grid points
slsqp_converged(n, lo, hi) ==
    LET grid == FeasibleGrid(n, lo, hi)
        first == {k \in grid :
                    Cardinality({m \in grid : LexKey(m, n) < LexKey(k, n)}) < OptPoints}
        Point(k) == LET X(i) == Rat(k[i], OptSteps) IN Vec(X, n)
    IN  {Point(k) : k \in first}

\* what an SLSQP-based optimizer returns: result.x when result.success, else
\* (no convergence, or an exception) equal weights
slsqp_outcomes(n, lo, hi) ==
    slsqp_converged(n, lo, hi) \cup {equal_weights(n)}

\* np.maximum(x, 0): NaN propagates
np_maximum0(x) == IF IsNaN(x) THEN NaN ELSE IF RGt(x, Zero) THEN x ELSE Zero

\* lines 465-467: clip the unconstrained solution, divide by its sum
bl_normalize(raw) ==
    LET Clip(i) == np_maximum0(raw[i])
        clipped == Vec(Clip, Len(raw))
        total == RSum(clipped)
        Normalized(i) == RDiv(clipped[i], total)
    IN  Vec(Normalized, Len(raw))

\* mutant: the four methods given equal shares
method_weights_equal_shares ==
    [mean_variance |-> Rat(1, 4), risk_parity |-> Rat(1, 4),
     black_litterman |-> Rat(1, 4), minimum_variance |-> Rat(1, 4)]

\* lines 514-519
method_weights ==
    [mean_variance |-> Rat(3, 10), risk_parity |-> Rat(3, 10),
     black_litterman |-> Rat(1, 5), minimum_variance |-> Rat(1, 5)]

\* lines 522-533
ensemble_optimization_methods(mv, rp, bl, mnv) ==
    LET Combined(i) ==
            RAdd(RAdd(RAdd(RMul(method_weights.mean_variance, mv[i]),
                           RMul(method_weights.risk_parity, rp[i])),
                      RMul(method_weights.black_litterman, bl[i])),
                 RMul(method_weights.minimum_variance, mnv[i]))
        Clip(i) == np_maximum0(Combined(i))
        clipped == Vec(Clip, Len(mv))
        total == RSum(clipped)
        Normalized(i) == RDiv(clipped[i], total)
    IN  Vec(Normalized, Len(mv))

(***************************************************************************)
(* calculate_allocation_changes (lines 694-714) and check_rebalancing_needed *)
(* (lines 762-781).  A weight map is a function from its keys; in the       *)
(* pipeline the keys are the positions 1..N of symbols.                     *)
(***************************************************************************)
\* d.get(k, default)
dict_get(d, k, default) == IF k \in DOMAIN d THEN d[k] ELSE default

\* set(list(current_weights.keys()) + list(new_weights.keys()))
all_symbols(current_weights, new_weights) == DOMAIN current_weights \cup DOMAIN new_weights

\* mutant: the deadband tests made non-strict
calculate_allocation_changes_inclusive(current_weights, new_weights) ==
    [symbol \in all_symbols(current_weights, new_weights) |->
        LET current == dict_get(current_weights, symbol, Zero)
            new == dict_get(new_weights, symbol, Zero)
            change == RSub(new, current)
        IN  [current_weight |-> current,
             new_weight |-> new,
             absolute_change |-> change,
             relative_change |-> IF RGt(current, Zero) THEN RDiv(change, current) ELSE Zero,
             action |-> IF RGe(change, Rat(1, 100)) THEN "BUY"
                        ELSE IF RLe(change, Rat(-1, 100)) THEN "SELL"
                        ELSE "HOLD"]]

calculate_allocation_changes(current_weights, new_weights) ==
    [symbol \in all_symbols(current_weights, new_weights) |->
        LET current == dict_get(current_weights, symbol, Zero)
            new == dict_get(new_weights, symbol, Zero)
            change == RSub(new, current)
        IN  [current_weight |-> current,
             new_weight |-> new,
             absolute_change |-> change,
             relative_change |-> IF RGt(current, Zero) THEN RDiv(change, current) ELSE Zero,
             action |-> IF RGt(change, Rat(1, 100)) THEN "BUY"
                        ELSE IF RLt(change, Rat(-1, 100)) THEN "SELL"
                        ELSE "HOLD"]]

\* line 767: sum(abs(new_weights.get(s, 0) - current_weights.get(s, 0)) for s in S)
RECURSIVE drift_over(_, _, _)
drift_over(current_weights, new_weights, S) ==
    IF S = {} THEN Zero
    ELSE LET symbol == CHOOSE s \in S : TRUE
         IN  RAdd(RAbs(RSub(dict_get(new_weights, symbol, Zero),
                            dict_get(current_weights, symbol, Zero))),
                  drift_over(current_weights, new_weights, S \ {symbol}))

\* mutant: the drift comparison reversed
check_rebalancing_needed_reversed(current_weights, new_weights) ==
    LET total_drift == drift_over(current_weights, new_weights,
                                  all_symbols(current_weights, new_weights))
    IN  [rebalancing_needed |-> RLt(total_drift, risk_params.rebalancing_threshold),
         total_drift |-> total_drift]

\* mutant: the drift compared with >= instead of >
check_rebalancing_needed_inclusive(current_weights, new_weights) ==
    LET total_drift == drift_over(current_weights, new_weights,
                                  all_symbols(current_weights, new_weights))
    IN  [rebalancing_needed |-> RGe(total_drift, risk_params.rebalancing_threshold),
         total_drift |-> total_drift]

check_rebalancing_needed(current_weights, new_weights) ==
    LET total_drift == drift_over(current_weights, new_weights,
                                  all_symbols(current_weights, new_weights))
    IN  [rebalancing_needed |-> RGt(total_drift, risk_params.rebalancing_threshold),
         total_drift |-> total_drift]

(***************************************************************************)
(* Requests.                                                               *)
(***************************************************************************)
tlt_lower == <<"t","l","t">>

Portfolios ==
    << <<>>,
       <<QQQ>>,
       <<SPY, TLT>>,
       <<QQQ, TLT, SPY>>,
       <<QQQ, TQQQ, ARKK>>,
       <<tlt_lower>>,
       <<SPY>> >>

CurrentLevels == {Rat(k, CurSteps) : k \in 0..CurSteps}
ConfidenceLevels == {Rat(k, ConfSteps) : k \in 0..ConfSteps}

GridRequests ==
    {[keys |-> Portfolios[p], values |-> v, market_regime |-> r, regime_confidence |-> c] :
        p \in 1..NumPortfolios, v \in UNION {[1..n -> CurrentLevels] : n \in 0..3},
        r \in Regimes, c \in ConfidenceLevels}

\* the scenario of the specification: SPY 0.6 / TLT 0.4, Bear, confidence 0.8
ScenarioRequest ==
    [keys |-> <<SPY, TLT>>, values |-> <<Rat(3, 5), Rat(2, 5)>>,
     market_regime |-> "Bear", regime_confidence |-> Rat(4, 5)]

Requests ==
    {q \in GridRequests : Len(q.values) = Len(q.keys)} \cup {ScenarioRequest}

\* input_data that is not a JSON object (an array, null, a number): it has no .get
ArrayRequest ==
    [shape |-> "array", keys |-> <<>>, values |-> <<>>,
     market_regime |-> "", regime_confidence |-> Zero]

\* an object whose current_weights is a JSON array [0.6, 0.4]: truthy, without .keys()
ListWeightsRequest ==
    [shape |-> "weights_list", keys |-> <<>>, values |-> <<Rat(3, 5), Rat(2, 5)>>,
     market_regime |-> "Bear", regime_confidence |-> Rat(4, 5)]

\* isinstance(current_weights, dict) for the request q
weights_are_dict(q) == "shape" \notin DOMAIN q

PortfolioSizes == {Len(Portfolios[p]) : p \in 1..NumPortfolios}

\* the outcomes of the three SLSQP solves and of the Black-Litterman solve,
\* by number of symbols
mv_outcomes ==
    [n \in PortfolioSizes |->
        slsqp_outcomes(n, allocation_constraints.min_weight, allocation_constraints.max_weight)]
rp_outcomes ==
    [n \in PortfolioSizes |->
        slsqp_outcomes(n, Rat(1, 100), allocation_constraints.max_weight)]
min_var_outcomes ==
    [n \in PortfolioSizes |->
        slsqp_outcomes(n, allocation_constraints.min_weight, allocation_constraints.max_weight)]
bl_outcomes ==
    [n \in PortfolioSizes |->
        {bl_normalize(raw) : raw \in [1..n -> {Rat(k, 1) : k \in -1..RawMax}]}]

\* the same, for the solves that report success (lines 390-391, 427-428, 498-499)
mv_converged ==
    [n \in PortfolioSizes |->
        slsqp_converged(n, allocation_constraints.min_weight, allocation_constraints.max_weight)]
rp_converged ==
    [n \in PortfolioSizes |->
        slsqp_converged(n, Rat(1, 100), allocation_constraints.max_weight)]
min_var_converged ==
    [n \in PortfolioSizes |->
        slsqp_converged(n, allocation_constraints.min_weight, allocation_constraints.max_weight)]

(***************************************************************************)
(* generate_fallback_allocation (lines 883-903).                           *)
(***************************************************************************)
\* mutant: the fallback hands back equal weights instead of the current ones
generate_fallback_allocation_equal(current_weights, market_regime) ==
    [kind |-> "fallback",
     success |-> FALSE,
     optimal_weights |-> equal_weights(Len(current_weights)),
     expected_return |-> Rat(2, 25),
     expected_risk |-> Rat(3, 20),
     sharpe_ratio |-> Rat(2, 5),
     regime |-> market_regime,
     error |-> "Dynamic allocation optimization failed - using current weights",
     fallback_mode |-> TRUE]

generate_fallback_allocation(current_weights, market_regime) ==
    [kind |-> "fallback",
     success |-> FALSE,
     optimal_weights |-> current_weights,
     expected_return |-> Rat(2, 25),
     expected_risk |-> Rat(3, 20),
     sharpe_ratio |-> Rat(2, 5),
     regime |-> market_regime,
     error |-> "Dynamic allocation optimization failed - using current weights",
     fallback_mode |-> TRUE]

(***************************************************************************)
(* The weight maps as Python keeps them.  A dict is an insertion-ordered   *)
(* list of (key, value) items: assigning to a key that is present replaces *)
(* the value where the key stands, assigning to a new key appends an item, *)
(* and keys(), values(), items(), copy() and a comprehension over items()  *)
(* all follow that order.                                                  *)
(***************************************************************************)
dict_keys(d) == LET Key(i) == d[i][1] IN Vec(Key, Len(d))

dict_values(d) == LET Value(i) == d[i][2] IN Vec(Value, Len(d))

dict_has(d, k) == \E i \in 1..Len(d) : d[i][1] = k

dict_getitem(d, k) == d[CHOOSE i \in 1..Len(d) : d[i][1] = k][2]

\* mutant: an assignment to a present key moves the key to the end
dict_setitem_moving_to_end(d, k, v) ==
    Append(SelectSeq(d, LAMBDA item : item[1] # k), <<k, v>>)

\* d[k] = v
dict_setitem(d, k, v) ==
    IF dict_has(d, k)
    THEN [d EXCEPT ![CHOOSE i \in 1..Len(d) : d[i][1] = k] = <<k, v>>]
    ELSE Append(d, <<k, v>>)

dict_copy(d) == d

\* dict(zip(keys, values)): zip stops at the shorter argument
RECURSIVE dict_zip_first(_, _, _)
dict_zip_first(keys, values, n) ==
    IF n = 0 THEN <<>>
    ELSE dict_setitem(dict_zip_first(keys, values, n - 1), keys[n], values[n])

dict_zip(keys, values) ==
    dict_zip_first(keys, values, IF Len(keys) < Len(values) THEN Len(keys) ELSE Len(values))

\* {symbol: weight / total_weight for symbol, weight in d.items()} when the
\* total is positive (lines 593-596 and 646-650)
dict_renormalize(d) ==
    dict_zip(dict_keys(d), renormalize(dict_values(d)))

\* [d[symbol] for symbol in symbols], with d.get(symbol, 0) where the code uses get
dict_lookup(d, symbols) ==
    LET Value(i) == IF dict_has(d, symbols[i]) THEN dict_getitem(d, symbols[i]) ELSE Zero
    IN  Vec(Value, Len(symbols))

\* for symbol in order: d[symbol] = target[symbol], order being positions of symbols
RECURSIVE assign_each(_, _, _, _, _)
assign_each(d, symbols, order, target, n) ==
    IF n = 0 THEN d
    ELSE dict_setitem(assign_each(d, symbols, order, target, n - 1),
                      symbols[order[n]], target[order[n]])

Positions(n) == LET Position(i) == i IN Vec(Position, n)

\* the positions a loop over symbols assigns to: those whose value changes
assigned_positions(old, new) == SelectSeq(Positions(Len(old)), LAMBDA i : old[i] # new[i])

\* sorted(symbols, key=lambda s: constrained_weights[s], reverse=True), as positions
top_symbols(w) ==
    LET AtRank(r) == CHOOSE i \in 1..Len(w) : sort_rank(w, i) = r - 1
    IN  Vec(AtRank, Len(w))

\* lines 339 and 354: optimization_results['optimal_weights']
optimal_weights_dict(symbols, ensemble_weights) == dict_zip(symbols, ensemble_weights)

\* apply_regime_tilts on the dict (lines 544, 564-598): the loop runs over the
\* items of the copy and assigns to every key it meets
apply_regime_tilts_dict(optimal_weights, market_regime, regime_confidence) ==
    LET keys == dict_keys(optimal_weights)
        w == dict_values(optimal_weights)
        Tilted(i) == tilt_clip(RAdd(w[i], tilt_adjustment(keys[i], market_regime,
                                                          regime_confidence)))
        tilted_weights == assign_each(dict_copy(optimal_weights), keys,
                                      Positions(Len(keys)), Vec(Tilted, Len(keys)),
                                      Len(keys))
    IN  dict_renormalize(tilted_weights)

\* apply_allocation_constraints on the dict (lines 609-652): every loop runs over
\* symbols and reads and writes constrained_weights[symbol]
apply_allocation_constraints_dict(weights, current_weights, symbols) ==
    LET n == Len(symbols)
        w0 == dict_lookup(weights, symbols)
        w1 == cap_max_weight(w0)
        d1 == LET order == assigned_positions(w0, w1)
              IN  assign_each(dict_copy(weights), symbols, order, w1, Len(order))
        w2 == zero_below_min(w1)
        d2 == LET order == assigned_positions(w1, w2)
              IN  assign_each(d1, symbols, order, w2, Len(order))
        w3 == ensure_min_diversification(w2)
        d3 == LET order == SelectSeq(top_symbols(w2), LAMBDA i : w2[i] # w3[i])
              IN  assign_each(d2, symbols, order, w3, Len(order))
        current_w == dict_lookup(current_weights, symbols)
        w4 == limit_turnover(w3, current_w)
        d4 == IF RGt(total_turnover(w3, current_w), allocation_constraints.max_turnover)
              THEN assign_each(d3, symbols, Positions(n), w4, n)
              ELSE d3
    IN  dict_renormalize(d4)


(***************************************************************************)
(* State.                                                                  *)
(***************************************************************************)
VARIABLES
    pc,                       \* position in calculate_dynamic_allocation
    input_data,               \* the request of the call in progress
    symbols,                  \* list(current_weights.keys())
    current_weights,          \* the values of current_weights, aligned with symbols
    correlation,              \* the correlation matrix of estimate_covariance_matrix
    mv_weights, rp_weights, bl_weights, min_var_weights,
    failed_methods,           \* the optimizers that did not converge or raised
    optimal_weights,          \* optimization_results['optimal_weights']
    regime_adjusted_weights,
    final_weights,
    response,
    service,                  \* the attributes of the DynamicAllocationService instance
    corr_args, corr_result    \* a direct call of estimate_asset_correlation

vars == <<pc, input_data, symbols, current_weights, correlation,
          mv_weights, rp_weights, bl_weights, min_var_weights, failed_methods,
          optimal_weights, regime_adjusted_weights, final_weights, response,
          service, corr_args, corr_result>>

NoResponse == [kind |-> "none"]
NoRequest == [keys |-> <<>>, values |-> <<>>, market_regime |-> "", regime_confidence |-> Zero]

Init ==
    /\ pc = "idle"
    /\ input_data = NoRequest
    /\ symbols = <<>>
    /\ current_weights = <<>>
    /\ correlation = <<>>
    /\ mv_weights = <<>>
    /\ rp_weights = <<>>
    /\ bl_weights = <<>>
    /\ min_var_weights = <<>>
    /\ failed_methods = {}
    /\ optimal_weights = <<>>
    /\ regime_adjusted_weights = <<>>
    /\ final_weights = <<>>
    /\ response = NoResponse
    /\ service = ServiceConfiguration
    /\ corr_args = <<>>
    /\ corr_result = 0

\* lines 56-64: read the request
Receive ==
    /\ pc = "idle"
    /\ \E q \in Requests \cup {ListWeightsRequest} : input_data' = q
    /\ pc' = "received"
    /\ UNCHANGED <<service, failed_methods, symbols, current_weights, correlation, mv_weights,
                   rp_weights, bl_weights, min_var_weights, optimal_weights,
                   regime_adjusted_weights, final_weights, response,
                   corr_args, corr_result>>

\* line 57 on input_data that is not a dict: input_data.get raises AttributeError
\* inside the try; the handler (lines 132-134) reads current_weights, which was
\* never bound, and its UnboundLocalError leaves calculate_dynamic_allocation
RaiseInRead ==
    /\ pc = "idle"
    /\ input_data' = ArrayRequest
    /\ response' = [kind |-> "raised", exception |-> "UnboundLocalError"]
    /\ pc' = "done"
    /\ UNCHANGED <<service, failed_methods, symbols, current_weights, correlation, mv_weights,
                   rp_weights, bl_weights, min_var_weights, optimal_weights,
                   regime_adjusted_weights, final_weights, corr_args, corr_result>>

\* lines 67-68: `if not current_weights: return {"error": ...}`
RejectEmpty ==
    /\ pc = "received"
    /\ input_data.values = <<>>
    /\ response' = [kind |-> "error", error |-> "No current weights provided"]
    /\ pc' = "done"
    /\ UNCHANGED <<service, failed_methods, input_data, symbols, current_weights, correlation,
                   mv_weights, rp_weights, bl_weights, min_var_weights, optimal_weights,
                   regime_adjusted_weights, final_weights, corr_args, corr_result>>

\* lines 70-71
Validate ==
    /\ pc = "received"
    /\ input_data.values # <<>>
    /\ weights_are_dict(input_data)
    /\ symbols' = input_data.keys
    /\ current_weights' = input_data.values
    /\ pc' = "validated"
    /\ UNCHANGED <<service, failed_methods, input_data, correlation, mv_weights, rp_weights,
                   bl_weights, min_var_weights, optimal_weights,
                   regime_adjusted_weights, final_weights, response,
                   corr_args, corr_result>>

\* line 71 on current_weights that is not a dict: .keys() raises AttributeError,
\* the handler of lines 132-134 returns the fallback
RaiseInKeys ==
    /\ pc = "received"
    /\ input_data.values # <<>>
    /\ ~weights_are_dict(input_data)
    /\ response' = generate_fallback_allocation(input_data.values, input_data.market_regime)
    /\ pc' = "done"
    /\ UNCHANGED <<service, failed_methods, input_data, symbols, current_weights, correlation,
                   mv_weights, rp_weights, bl_weights, min_var_weights, optimal_weights,
                   regime_adjusted_weights, final_weights, corr_args, corr_result>>

\* lines 73-80, of which the correlation matrix (lines 216-225) is kept
Estimate ==
    /\ pc = "validated"
    /\ correlation' = correlation_matrix(symbols)
    /\ pc' = "estimated"
    /\ UNCHANGED <<service, failed_methods, input_data, symbols, current_weights, mv_weights, rp_weights,
                   bl_weights, min_var_weights, optimal_weights,
                   regime_adjusted_weights, final_weights, response,
                   corr_args, corr_result>>

\* mutant: a solve that did not converge is attempted again instead of falling back
MeanVariance_retrying ==
    /\ pc = "estimated"
    /\ \/ /\ mv_weights' \in mv_converged[Len(symbols)]
          /\ failed_methods' = failed_methods
          /\ pc' = "mv_done"
       \/ /\ mv_weights' = mv_weights
          /\ failed_methods' = failed_methods \cup {"mean_variance"}
          /\ pc' = "estimated"
    /\ UNCHANGED <<service, input_data, symbols, current_weights, correlation, rp_weights,
                   bl_weights, min_var_weights,
                   optimal_weights, regime_adjusted_weights, final_weights, response,
                   corr_args, corr_result>>

\* line 322: mean_variance_optimization (lines 358-398), bounds (min_weight, max_weight)
MeanVariance ==
    /\ pc = "estimated"
    /\ \/ /\ mv_weights' \in mv_converged[Len(symbols)]
          /\ failed_methods' = failed_methods
       \/ /\ mv_weights' = equal_weights(Len(symbols))    \* lines 392-398
          /\ failed_methods' = failed_methods \cup {"mean_variance"}
    /\ pc' = "mv_done"
    /\ UNCHANGED <<service, input_data, symbols, current_weights, correlation, rp_weights,
                   bl_weights, min_var_weights,
                   optimal_weights, regime_adjusted_weights, final_weights, response,
                   corr_args, corr_result>>

\* line 325: risk_parity_optimization (lines 400-435), bounds (0.01, max_weight)
RiskParity ==
    /\ pc = "mv_done"
    /\ \/ /\ rp_weights' \in rp_converged[Len(symbols)]
          /\ failed_methods' = failed_methods
       \/ /\ rp_weights' = equal_weights(Len(symbols))    \* lines 429-435
          /\ failed_methods' = failed_methods \cup {"risk_parity"}
    /\ pc' = "rp_done"
    /\ UNCHANGED <<service, input_data, symbols, current_weights, correlation, mv_weights,
                   bl_weights, min_var_weights,
                   optimal_weights, regime_adjusted_weights, final_weights, response,
                   corr_args, corr_result>>

\* line 328: black_litterman_optimization (lines 437-473); the solution of line 463
\* is any vector, and the except clause hands back the current weights it was given
BlackLitterman ==
    /\ pc = "rp_done"
    /\ \/ /\ bl_weights' \in bl_outcomes[Len(symbols)]
          /\ failed_methods' = failed_methods
       \/ /\ bl_weights' = current_weights    \* lines 471-473
          /\ failed_methods' = failed_methods \cup {"black_litterman"}
    /\ pc' = "bl_done"
    /\ UNCHANGED <<service, input_data, symbols, current_weights, correlation, mv_weights,
                   rp_weights, min_var_weights,
                   optimal_weights, regime_adjusted_weights, final_weights, response,
                   corr_args, corr_result>>

\* line 331: minimum_variance_optimization (lines 475-506), bounds (min_weight, max_weight)
MinimumVariance ==
    /\ pc = "bl_done"
    /\ \/ /\ min_var_weights' \in min_var_converged[Len(symbols)]
          /\ failed_methods' = failed_methods
       \/ /\ min_var_weights' = equal_weights(Len(symbols))    \* lines 500-506
          /\ failed_methods' = failed_methods \cup {"minimum_variance"}
    /\ pc' = "minvar_done"
    /\ UNCHANGED <<service, input_data, symbols, current_weights, correlation, mv_weights,
                   rp_weights, bl_weights,
                   optimal_weights, regime_adjusted_weights, final_weights, response,
                   corr_args, corr_result>>

\* mutant: the blend starts without awaiting minimum_variance_optimization, with
\* equal weights in its place
Ensemble_without_barrier ==
    /\ pc \in {"bl_done", "minvar_done"}
    /\ optimal_weights' =
          ensemble_optimization_methods(
              mv_weights, rp_weights, bl_weights,
              IF pc = "bl_done" THEN equal_weights(Len(symbols)) ELSE min_var_weights)
    /\ mv_weights' = <<>>
    /\ rp_weights' = <<>>
    /\ bl_weights' = <<>>
    /\ min_var_weights' = <<>>
    /\ failed_methods' = {}
    /\ pc' = "optimized"
    /\ UNCHANGED <<service, input_data, symbols, current_weights, correlation,
                   regime_adjusted_weights, final_weights, response,
                   corr_args, corr_result>>

\* lines 334-347: blend, return from optimize_portfolio_allocation (its locals die)
Ensemble ==
    /\ pc = "minvar_done"
    /\ optimal_weights' = ensemble_optimization_methods(mv_weights, rp_weights,
                                                        bl_weights, min_var_weights)
    /\ mv_weights' = <<>>
    /\ rp_weights' = <<>>
    /\ bl_weights' = <<>>
    /\ min_var_weights' = <<>>
    /\ failed_methods' = {}
    /\ pc' = "optimized"
    /\ UNCHANGED <<service, input_data, symbols, current_weights, correlation,
                   regime_adjusted_weights, final_weights, response,
                   corr_args, corr_result>>

\* lines 88-90
Tilt ==
    /\ pc = "optimized"
    /\ regime_adjusted_weights' =
          apply_regime_tilts(symbols, optimal_weights, input_data.market_regime,
                             input_data.regime_confidence)
    /\ pc' = "tilted"
    /\ UNCHANGED <<service, failed_methods, input_data, symbols, current_weights, correlation, mv_weights,
                   rp_weights, bl_weights, min_var_weights, optimal_weights,
                   final_weights, response, corr_args, corr_result>>

\* lines 93-95
Constrain ==
    /\ pc = "tilted"
    /\ final_weights' = apply_allocation_constraints(regime_adjusted_weights, current_weights)
    /\ pc' = "constrained"
    /\ UNCHANGED <<service, failed_methods, input_data, symbols, current_weights, correlation, mv_weights,
                   rp_weights, bl_weights, min_var_weights, optimal_weights,
                   regime_adjusted_weights, response, corr_args, corr_result>>

\* lines 97-130: the success response
Respond ==
    /\ pc = "constrained"
    /\ response' = [kind |-> "result", success |-> TRUE,
                    optimal_weights |-> final_weights,
                    allocation_changes |->
                        calculate_allocation_changes(current_weights, final_weights),
                    rebalancing_needed |->
                        check_rebalancing_needed(current_weights, final_weights)]
    /\ pc' = "done"
    /\ UNCHANGED <<service, failed_methods, input_data, symbols, current_weights, correlation, mv_weights,
                   rp_weights, bl_weights, min_var_weights, optimal_weights,
                   regime_adjusted_weights, final_weights, corr_args, corr_result>>

\* lines 97-130 raise: calculate_allocation_changes (line 121) is the one helper
\* without a try of its own (`new - current` raises TypeError on a weight that is
\* not a number); the handler of lines 132-134 returns the fallback
RaiseInResponse ==
    /\ pc = "constrained"
    /\ response' = generate_fallback_allocation(current_weights, input_data.market_regime)
    /\ pc' = "done"
    /\ UNCHANGED <<service, failed_methods, input_data, symbols, current_weights, correlation,
                   mv_weights, rp_weights, bl_weights, min_var_weights, optimal_weights,
                   regime_adjusted_weights, final_weights, corr_args, corr_result>>

Next ==
    \/ Receive
    \/ RaiseInRead
    \/ RejectEmpty
    \/ Validate
    \/ RaiseInKeys
    \/ Estimate
    \/ MeanVariance
    \/ RiskParity
    \/ BlackLitterman
    \/ MinimumVariance
    \/ Ensemble
    \/ Tilt
    \/ Constrain
    \/ Respond
    \/ RaiseInResponse

Spec == Init /\ [][Next]_vars

(***************************************************************************)
(* The same call under fairness, on a few requests: the scenario of the    *)
(* specification, three symbols, one symbol, no weights and a weights list.*)
(* The interpreter goes on executing the statements of a call that has     *)
(* begun, and every library call (minimize, np.linalg.inv) comes back:     *)
(* SLSQP stops at its iteration limit.                                     *)
(***************************************************************************)
FairRequests ==
    {ScenarioRequest,
     [keys |-> <<QQQ, TLT, SPY>>, values |-> <<Rat(1, 2), Rat(1, 2), Zero>>,
      market_regime |-> "Bull", regime_confidence |-> One],
     [keys |-> <<QQQ>>, values |-> <<One>>,
      market_regime |-> "Stable", regime_confidence |-> Zero],
     [keys |-> <<>>, values |-> <<>>,
      market_regime |-> "Volatile", regime_confidence |-> One],
     ListWeightsRequest}

\* lines 56-64: read the request
ReceiveFair ==
    /\ pc = "idle"
    /\ \E q \in FairRequests : input_data' = q
    /\ pc' = "received"
    /\ UNCHANGED <<service, failed_methods, symbols, current_weights, correlation, mv_weights,
                   rp_weights, bl_weights, min_var_weights, optimal_weights,
                   regime_adjusted_weights, final_weights, response,
                   corr_args, corr_result>>

NextFair ==
    \/ ReceiveFair
    \/ RaiseInRead
    \/ RejectEmpty
    \/ Validate
    \/ RaiseInKeys
    \/ Estimate
    \/ MeanVariance
    \/ RiskParity
    \/ BlackLitterman
    \/ MinimumVariance
    \/ Ensemble
    \/ Tilt
    \/ Constrain
    \/ Respond
    \/ RaiseInResponse

\* weak fairness of every step of a call that has begun.  For the steps that are
\* plain assignments, ENABLED <<A>>_vars is written out: it is the position the
\* step starts from, the step always changing pc
Fairness ==
    /\ WF_vars(RejectEmpty \/ Validate \/ RaiseInKeys)
    /\ WF_vars(Estimate)
    /\ WF_vars(MeanVariance)
    /\ WF_vars(RiskParity)
    /\ WF_vars(BlackLitterman)
    /\ WF_vars(MinimumVariance)
    /\ (<>[](pc = "minvar_done") => []<><<Ensemble>>_vars)
    /\ (<>[](pc = "optimized") => []<><<Tilt>>_vars)
    /\ (<>[](pc = "tilted") => []<><<Constrain>>_vars)
    /\ (<>[](pc = "constrained") => []<><<Respond \/ RaiseInResponse>>_vars)

SpecFair == Init /\ [][NextFair]_vars /\ Fairness

(***************************************************************************)
(* estimate_asset_correlation called on its own, on every pair of distinct *)
(* symbols (the keys of a dict) of a set that covers each class tag, mixed *)
(* tags, lower case and no tag.                                            *)
(***************************************************************************)
SPYTLT == SPY \o TLT
QQQBND == QQQ \o BND
GLDTLT == GLD \o TLT
GLDBND == GLD \o BND
XYZ == <<"X","Y","Z">>

CorrelationSymbols ==
    {TLT, BND, SHY, tlt_lower, SPY, EFA, GLD, SPYTLT, QQQBND, GLDTLT, GLDBND, XYZ}

CorrelationCall ==
    /\ pc = "idle"
    /\ corr_args = <<>>
    /\ \E s1 \in CorrelationSymbols :
          \E s2 \in CorrelationSymbols \ {s1} : corr_args' = <<s1, s2>>
    /\ UNCHANGED <<service, failed_methods, pc, input_data, symbols, current_weights, correlation, mv_weights,
                   rp_weights, bl_weights, min_var_weights, optimal_weights,
                   regime_adjusted_weights, final_weights, response, corr_result>>

CorrelationReturn ==
    /\ corr_args # <<>>
    /\ corr_result = 0
    /\ corr_result' = estimate_asset_correlation(corr_args[1], corr_args[2])
    /\ UNCHANGED <<service, failed_methods, pc, input_data, symbols, current_weights, correlation, mv_weights,
                   rp_weights, bl_weights, min_var_weights, optimal_weights,
                   regime_adjusted_weights, final_weights, response, corr_args>>

NextCorrelation ==
    \/ CorrelationCall
    \/ CorrelationReturn

SpecCorrelation == Init /\ [][NextCorrelation]_vars

(***************************************************************************)
(* calculate_allocation_changes and check_rebalancing_needed called on     *)
(* their own, on every pair of weight maps over one or two symbols whose   *)
(* weights put a change on, below and above the 1% deadband and the drift  *)
(* on, below and above the 5% threshold.                                   *)
(***************************************************************************)
ChangeLevels == {Zero, Rat(1, 100), Rat(1, 50), Rat(1, 25), Rat(1, 20), Rat(1, 2)}

ChangeMaps == UNION {[K -> ChangeLevels] : K \in SUBSET {SPY, TLT}}

ChangesCall ==
    /\ pc = "idle"
    /\ response = NoResponse
    /\ current_weights = <<>>
    /\ final_weights = <<>>
    /\ \E cur \in ChangeMaps :
          \E new \in ChangeMaps :
             /\ all_symbols(cur, new) # {}
             /\ current_weights' = cur
             /\ final_weights' = new
    /\ UNCHANGED <<service, failed_methods, pc, input_data, symbols, correlation, mv_weights,
                   rp_weights, bl_weights, min_var_weights, optimal_weights,
                   regime_adjusted_weights, response, corr_args, corr_result>>

ChangesReturn ==
    /\ pc = "idle"
    /\ response = NoResponse
    /\ all_symbols(current_weights, final_weights) # {}
    /\ response' = [kind |-> "changes",
                    allocation_changes |->
                        calculate_allocation_changes(current_weights, final_weights),
                    rebalancing_needed |->
                        check_rebalancing_needed(current_weights, final_weights)]
    /\ UNCHANGED <<service, failed_methods, pc, input_data, symbols, current_weights, correlation,
                   mv_weights, rp_weights, bl_weights, min_var_weights, optimal_weights,
                   regime_adjusted_weights, final_weights, corr_args, corr_result>>

NextChanges ==
    \/ ChangesCall
    \/ ChangesReturn

SpecChanges == Init /\ [][NextChanges]_vars

(***************************************************************************)
(* apply_regime_tilts called on its own, on weight maps that are           *)
(* non-negative and sum to 1, over symbols with a growth tag, a bond tag,  *)
(* a defensive tag, several tags, a lower-case tag and no tag, under each  *)
(* regime and at confidence 0, 0.5 and 1.                                  *)
(***************************************************************************)
TiltPortfolios ==
    {<<QQQ, TLT, SPY>>, <<QQQBND, GLD>>, <<tlt_lower, ARKK, AGG>>, <<XYZ, BND>>, <<TQQQ>>}

TiltLevels == {Zero, Rat(1, 4), Rat(1, 2), Rat(3, 4), One}

TiltConfidences == {Zero, Rat(1, 2), One}

TiltWeights(n) == {w \in [1..n -> TiltLevels] : RSum(w) = One}

TiltCall ==
    /\ pc = "idle"
    /\ symbols = <<>>
    /\ \E p \in TiltPortfolios :
          \E w \in TiltWeights(Len(p)) :
             \E r \in Regimes :
                \E c \in TiltConfidences :
                   /\ symbols' = p
                   /\ optimal_weights' = w
                   /\ input_data' = [NoRequest EXCEPT !.market_regime = r,
                                                      !.regime_confidence = c]
    /\ UNCHANGED <<service, pc, current_weights, correlation, mv_weights, rp_weights, bl_weights,
                   min_var_weights, failed_methods, regime_adjusted_weights,
                   final_weights, response, corr_args, corr_result>>

TiltReturn ==
    /\ pc = "idle"
    /\ symbols # <<>>
    /\ regime_adjusted_weights = <<>>
    /\ regime_adjusted_weights' =
          apply_regime_tilts(symbols, optimal_weights, input_data.market_regime,
                             input_data.regime_confidence)
    /\ UNCHANGED <<service, pc, input_data, symbols, current_weights, correlation, mv_weights,
                   rp_weights, bl_weights, min_var_weights, failed_methods,
                   optimal_weights, final_weights, response, corr_args, corr_result>>

NextTilts ==
    \/ TiltCall
    \/ TiltReturn

SpecTilts == Init /\ [][NextTilts]_vars

(***************************************************************************)
(* ensemble_optimization_methods called on its own, on four candidates     *)
(* over two symbols (weights in quarters) or three symbols (weights in     *)
(* halves) that are non-negative and sum to 1; the Black-Litterman         *)
(* candidate may also be the NaN vector of a zero sum or an all-zero       *)
(* vector of current weights.                                              *)
(***************************************************************************)
SimplexCandidates(n) ==
    IF n = 2 THEN {w \in [1..2 -> {Rat(k, 4) : k \in 0..4}] : RSum(w) = One}
    ELSE {w \in [1..n -> {Rat(k, 2) : k \in 0..2}] : RSum(w) = One}

BlackLittermanCandidates(n) ==
    SimplexCandidates(n) \cup {bl_normalize([i \in 1..n |-> Zero]), [i \in 1..n |-> Zero]}

EnsembleCall ==
    /\ pc = "idle"
    /\ mv_weights = <<>>
    /\ \E n \in {2, 3} :
          /\ mv_weights' \in SimplexCandidates(n)
          /\ rp_weights' \in SimplexCandidates(n)
          /\ bl_weights' \in BlackLittermanCandidates(n)
          /\ min_var_weights' \in SimplexCandidates(n)
    /\ UNCHANGED <<service, pc, input_data, symbols, current_weights, correlation, failed_methods,
                   optimal_weights, regime_adjusted_weights, final_weights, response,
                   corr_args, corr_result>>

EnsembleReturn ==
    /\ pc = "idle"
    /\ mv_weights # <<>>
    /\ optimal_weights = <<>>
    /\ optimal_weights' = ensemble_optimization_methods(mv_weights, rp_weights,
                                                        bl_weights, min_var_weights)
    /\ UNCHANGED <<service, pc, input_data, symbols, current_weights, correlation, mv_weights,
                   rp_weights, bl_weights, min_var_weights, failed_methods,
                   regime_adjusted_weights, final_weights, response,
                   corr_args, corr_result>>

NextEnsemble ==
    \/ EnsembleCall
    \/ EnsembleReturn

SpecEnsemble == Init /\ [][NextEnsemble]_vars

(***************************************************************************)
(* Two calls of calculate_dynamic_allocation on one service instance,      *)
(* interleaved at the stage boundaries.  Every local of a call is indexed  *)
(* by the call; service is the one instance both calls run on.  A request  *)
(* carries risk_adjustment, which line 61 reads.                           *)
(***************************************************************************)
Calls == {1, 2}

CallRequests ==
    {[keys |-> <<SPY, TLT>>, values |-> <<Rat(3, 5), Rat(2, 5)>>,
      market_regime |-> r, regime_confidence |-> Rat(4, 5), risk_adjustment |-> a] :
        r \in {"Bear", "Bull"}, a \in {One, Rat(1, 2)}}
    \cup
    {[keys |-> <<QQQ>>, values |-> <<One>>,
      market_regime |-> "Stable", regime_confidence |-> Rat(1, 2), risk_adjustment |-> a] :
        a \in {One, Rat(3, 2)}}

\* mutant: the request's risk_adjustment scales the risk target
adjusted_risk_target_of_scaled(q) ==
    RMul(q.risk_adjustment,
         calculate_adjusted_risk_target(q.market_regime, q.regime_confidence))

\* line 80: the risk target of the request q
adjusted_risk_target_of(q) ==
    calculate_adjusted_risk_target(q.market_regime, q.regime_confidence)

\* lines 112-130, of the request q with final weights final_w
success_response(q, final_w) ==
    [kind |-> "result", success |-> TRUE,
     optimal_weights |-> final_w,
     allocation_changes |-> calculate_allocation_changes(q.values, final_w),
     rebalancing_needed |-> check_rebalancing_needed(q.values, final_w),
     regime_adjustments |->
         [market_regime |-> q.market_regime,
          risk_adjustment |-> adjusted_risk_target_of(q),
          regime_confidence |-> q.regime_confidence]]

InitCalls ==
    /\ pc = [c \in Calls |-> "idle"]
    /\ input_data = [c \in Calls |-> NoRequest]
    /\ symbols = [c \in Calls |-> <<>>]
    /\ current_weights = [c \in Calls |-> <<>>]
    /\ correlation = [c \in Calls |-> <<>>]
    /\ mv_weights = [c \in Calls |-> <<>>]
    /\ rp_weights = [c \in Calls |-> <<>>]
    /\ bl_weights = [c \in Calls |-> <<>>]
    /\ min_var_weights = [c \in Calls |-> <<>>]
    /\ failed_methods = {}
    /\ optimal_weights = [c \in Calls |-> <<>>]
    /\ regime_adjusted_weights = [c \in Calls |-> <<>>]
    /\ final_weights = [c \in Calls |-> <<>>]
    /\ response = [c \in Calls |-> NoResponse]
    /\ service = ServiceConfiguration
    /\ corr_args = <<>>
    /\ corr_result = 0

\* lines 57-71
CallReceive(c) ==
    /\ pc[c] = "idle"
    /\ \E q \in CallRequests :
          /\ input_data' = [input_data EXCEPT ![c] = q]
          /\ symbols' = [symbols EXCEPT ![c] = q.keys]
          /\ current_weights' = [current_weights EXCEPT ![c] = q.values]
    /\ pc' = [pc EXCEPT ![c] = "validated"]
    /\ UNCHANGED <<service, correlation, mv_weights, rp_weights, bl_weights,
                   min_var_weights, failed_methods, optimal_weights,
                   regime_adjusted_weights, final_weights, response,
                   corr_args, corr_result>>

\* lines 73-80
CallEstimate(c) ==
    /\ pc[c] = "validated"
    /\ correlation' = [correlation EXCEPT ![c] = correlation_matrix(symbols[c])]
    /\ pc' = [pc EXCEPT ![c] = "estimated"]
    /\ UNCHANGED <<service, input_data, symbols, current_weights, mv_weights, rp_weights,
                   bl_weights, min_var_weights, failed_methods, optimal_weights,
                   regime_adjusted_weights, final_weights, response,
                   corr_args, corr_result>>

\* lines 322-331: the four optimizers, each a converged candidate or its fallback
CallOptimize(c) ==
    /\ pc[c] = "estimated"
    /\ \E mv \in mv_outcomes[Len(symbols[c])] :
          mv_weights' = [mv_weights EXCEPT ![c] = mv]
    /\ \E rp \in rp_outcomes[Len(symbols[c])] :
          rp_weights' = [rp_weights EXCEPT ![c] = rp]
    /\ \E bl \in bl_outcomes[Len(symbols[c])] \cup {current_weights[c]} :
          bl_weights' = [bl_weights EXCEPT ![c] = bl]
    /\ \E mnv \in min_var_outcomes[Len(symbols[c])] :
          min_var_weights' = [min_var_weights EXCEPT ![c] = mnv]
    /\ pc' = [pc EXCEPT ![c] = "minvar_done"]
    /\ UNCHANGED <<service, input_data, symbols, current_weights, correlation,
                   failed_methods, optimal_weights, regime_adjusted_weights,
                   final_weights, response, corr_args, corr_result>>

\* lines 334-336
CallEnsemble(c) ==
    /\ pc[c] = "minvar_done"
    /\ optimal_weights' =
          [optimal_weights EXCEPT ![c] =
              ensemble_optimization_methods(mv_weights[c], rp_weights[c],
                                            bl_weights[c], min_var_weights[c])]
    /\ pc' = [pc EXCEPT ![c] = "optimized"]
    /\ UNCHANGED <<service, input_data, symbols, current_weights, correlation,
                   mv_weights, rp_weights, bl_weights, min_var_weights, failed_methods,
                   regime_adjusted_weights, final_weights, response,
                   corr_args, corr_result>>

\* lines 88-90
CallTilt(c) ==
    /\ pc[c] = "optimized"
    /\ regime_adjusted_weights' =
          [regime_adjusted_weights EXCEPT ![c] =
              apply_regime_tilts(symbols[c], optimal_weights[c],
                                 input_data[c].market_regime,
                                 input_data[c].regime_confidence)]
    /\ pc' = [pc EXCEPT ![c] = "tilted"]
    /\ UNCHANGED <<service, input_data, symbols, current_weights, correlation,
                   mv_weights, rp_weights, bl_weights, min_var_weights, failed_methods,
                   optimal_weights, final_weights, response, corr_args, corr_result>>

\* mutant: the projection tightens max_turnover on the instance
CallConstrain_writes_config(c) ==
    /\ pc[c] = "tilted"
    /\ final_weights' =
          [final_weights EXCEPT ![c] =
              apply_allocation_constraints(regime_adjusted_weights[c], current_weights[c])]
    /\ service' = [service EXCEPT !.allocation_constraints.max_turnover = Rat(1, 10)]
    /\ pc' = [pc EXCEPT ![c] = "constrained"]
    /\ UNCHANGED <<input_data, symbols, current_weights, correlation,
                   mv_weights, rp_weights, bl_weights, min_var_weights, failed_methods,
                   optimal_weights, regime_adjusted_weights, response,
                   corr_args, corr_result>>

\* lines 93-95
CallConstrain(c) ==
    /\ pc[c] = "tilted"
    /\ final_weights' =
          [final_weights EXCEPT ![c] =
              apply_allocation_constraints(regime_adjusted_weights[c], current_weights[c])]
    /\ pc' = [pc EXCEPT ![c] = "constrained"]
    /\ UNCHANGED <<service, input_data, symbols, current_weights, correlation,
                   mv_weights, rp_weights, bl_weights, min_var_weights, failed_methods,
                   optimal_weights, regime_adjusted_weights, response,
                   corr_args, corr_result>>

\* lines 97-130
CallRespond(c) ==
    /\ pc[c] = "constrained"
    /\ response' = [response EXCEPT ![c] = success_response(input_data[c], final_weights[c])]
    /\ pc' = [pc EXCEPT ![c] = "done"]
    /\ UNCHANGED <<service, input_data, symbols, current_weights, correlation,
                   mv_weights, rp_weights, bl_weights, min_var_weights, failed_methods,
                   optimal_weights, regime_adjusted_weights, final_weights,
                   corr_args, corr_result>>

NextCalls ==
    \E c \in Calls :
        \/ CallReceive(c)
        \/ CallEstimate(c)
        \/ CallOptimize(c)
        \/ CallEnsemble(c)
        \/ CallTilt(c)
        \/ CallConstrain(c)
        \/ CallRespond(c)

SpecCalls == InitCalls /\ [][NextCalls]_vars


(***************************************************************************)
(* The pipeline on the weight maps themselves: the request carries its     *)
(* current_weights as a dict (input_data.items), and optimal_weights,      *)
(* regime_adjusted_weights and final_weights hold dicts.                   *)
(***************************************************************************)
KeyPortfolios ==
    {<<QQQ, TLT, SPY>>, <<TLT, tlt_lower, GLD, QQQ>>, <<BND, ARKK>>, <<SPY>>}

\* lines 57-71: read the request, symbols = list(current_weights.keys())
KeysReceive ==
    /\ pc = "idle"
    /\ input_data = NoRequest
    /\ \E p \in KeyPortfolios :
          \E c \in {equal_weights(Len(p)), [i \in 1..Len(p) |-> IF i = 1 THEN One ELSE Zero]} :
             \E r \in Regimes :
                \E conf \in {Zero, One} :
                   /\ input_data' = [items |-> dict_zip(p, c), market_regime |-> r,
                                     regime_confidence |-> conf]
                   /\ symbols' = p
    /\ UNCHANGED <<service, pc, current_weights, correlation, mv_weights, rp_weights, bl_weights,
                   min_var_weights, failed_methods, optimal_weights,
                   regime_adjusted_weights, final_weights, response, corr_args, corr_result>>

\* lines 83-85 with 339: the blend, any point of the simplex, zipped with symbols
KeysOptimize ==
    /\ pc = "idle"
    /\ input_data # NoRequest
    /\ optimal_weights = <<>>
    /\ \E ensemble_weights \in TiltWeights(Len(symbols)) :
          optimal_weights' = optimal_weights_dict(symbols, ensemble_weights)
    /\ UNCHANGED <<service, pc, input_data, symbols, current_weights, correlation, mv_weights,
                   rp_weights, bl_weights, min_var_weights, failed_methods,
                   regime_adjusted_weights, final_weights, response, corr_args, corr_result>>

\* lines 88-90
KeysTilt ==
    /\ pc = "idle"
    /\ optimal_weights # <<>>
    /\ regime_adjusted_weights = <<>>
    /\ regime_adjusted_weights' =
          apply_regime_tilts_dict(optimal_weights, input_data.market_regime,
                                  input_data.regime_confidence)
    /\ UNCHANGED <<service, pc, input_data, symbols, current_weights, correlation, mv_weights,
                   rp_weights, bl_weights, min_var_weights, failed_methods,
                   optimal_weights, final_weights, response, corr_args, corr_result>>

\* lines 93-95 and 112-114: project, and answer with the projected map
KeysConstrain ==
    /\ pc = "idle"
    /\ regime_adjusted_weights # <<>>
    /\ final_weights = <<>>
    /\ final_weights' =
          apply_allocation_constraints_dict(regime_adjusted_weights, input_data.items, symbols)
    /\ response' = [kind |-> "result", success |-> TRUE, optimal_weights |-> final_weights']
    /\ UNCHANGED <<service, pc, input_data, symbols, current_weights, correlation, mv_weights,
                   rp_weights, bl_weights, min_var_weights, failed_methods,
                   optimal_weights, regime_adjusted_weights, corr_args, corr_result>>

NextKeys ==
    \/ KeysReceive
    \/ KeysOptimize
    \/ KeysTilt
    \/ KeysConstrain

SpecKeys == Init /\ [][NextKeys]_vars

(***************************************************************************)
(* Properties of the response.                                             *)
(***************************************************************************)
\* the call has returned its success response (lines 112-130)
Returned == pc = "done" /\ response.kind = "result"

\* the turnover step of apply_allocation_constraints scaled the changes
TurnoverLimited ==
    RGt(total_turnover(ensure_min_diversification(zero_below_min(
            cap_max_weight(regime_adjusted_weights))), current_weights),
        allocation_constraints.max_turnover)

\* C1: the optimal_weights of every response to a valid request sum to 1
C1_WeightsSumToOne ==
    Returned => RSum(response.optimal_weights) = One

\* C1 witness: a response whose blend was NaN (every tilted weight clipped to 0,
\* so the sum is restored only by the diversification floor and the renormalization)
C1_Witness ==
    /\ Returned
    /\ \E i \in 1..Len(symbols) : IsNaN(optimal_weights[i])
    /\ RSum(regime_adjusted_weights) = Zero
    /\ RSum(response.optimal_weights) = One

\* C2 (as claimed): no returned weight exceeds max_weight
C2_MaxWeightRespected ==
    Returned =>
        \A i \in 1..Len(symbols) :
            RLe(response.optimal_weights[i], allocation_constraints.max_weight)

\* C3: no returned weight is negative (nor NaN)
C3_WeightsNonNegative ==
    Returned => \A i \in 1..Len(symbols) : RGe(response.optimal_weights[i], Zero)

\* C3 witness: Bull at full confidence lowered a bond-tagged symbol below its
\* current weight while the turnover step was scaling the changes
C3_Witness ==
    /\ Returned
    /\ input_data.market_regime = "Bull"
    /\ input_data.regime_confidence = One
    /\ TurnoverLimited
    /\ \E i \in 1..Len(symbols) :
          /\ AnyIn(bond_tags, symbols[i])
          /\ RLt(response.optimal_weights[i], current_weights[i])
          /\ RGe(response.optimal_weights[i], Zero)

\* C4 (as claimed): the returned weights are within max_turnover of the current ones
C4_TurnoverRespected ==
    Returned =>
        RLe(total_turnover(response.optimal_weights, current_weights),
            allocation_constraints.max_turnover)

\* C5 (as claimed): at least min(min_diversification, N) returned weights exceed 1%
C5_DiversificationRespected ==
    Returned =>
        LET held == Cardinality({i \in 1..Len(symbols) :
                        RGt(response.optimal_weights[i], Rat(1, 100))})
            wanted == IF Len(symbols) < allocation_constraints.min_diversification
                      THEN Len(symbols) ELSE allocation_constraints.min_diversification
        IN  held >= wanted

TiltUnder(r) ==
    apply_regime_tilts(symbols, optimal_weights, r, input_data.regime_confidence)
FinalUnder(r) == apply_allocation_constraints(TiltUnder(r), current_weights)

GrowthPositions == {i \in 1..Len(symbols) : AnyIn(growth_tags, symbols[i])}

RECURSIVE SumOver(_, _)
SumOver(w, S) ==
    IF S = {} THEN Zero
    ELSE LET i == CHOOSE j \in S : TRUE IN RAdd(w[i], SumOver(w, S \ {i}))

\* C8 (as claimed): under Bull no growth-tagged symbol is returned with a lower
\* weight than the same blend, holdings and confidence give it under Stable
C8_BullFinalNotLower ==
    (Returned /\ input_data.market_regime = "Bull") =>
        \A i \in GrowthPositions :
            RGe(response.optimal_weights[i], FinalUnder("Stable")[i])

\* C8 (amended): after apply_regime_tilts the growth-tagged symbols together
\* weigh at least as much under Bull as under Stable
C8_BullGrowthShareNotLower ==
    (Returned /\ input_data.market_regime = "Bull") =>
        RGe(SumOver(regime_adjusted_weights, GrowthPositions),
            SumOver(TiltUnder("Stable"), GrowthPositions))

\* C8 witness: Bull at full confidence, where one growth-tagged symbol was tilted
\* below its Stable weight although the growth share did not fall
C8_Witness ==
    /\ Returned
    /\ input_data.market_regime = "Bull"
    /\ input_data.regime_confidence = One
    /\ \E i \in GrowthPositions :
          RLt(regime_adjusted_weights[i], TiltUnder("Stable")[i])
    /\ RGe(SumOver(regime_adjusted_weights, GrowthPositions),
           SumOver(TiltUnder("Stable"), GrowthPositions))

\* C9: in the SPY 0.6 / TLT 0.4, Bear, 0.8 scenario TLT is returned above 0.4,
\* SPY below 0.6, and rebalancing_needed is set when the drift exceeds 5%
C9_BearScenario ==
    (Returned /\ input_data = ScenarioRequest) =>
        /\ RLt(response.optimal_weights[1], Rat(3, 5))
        /\ RGt(response.optimal_weights[2], Rat(2, 5))
        /\ (RGt(total_turnover(response.optimal_weights, current_weights), Rat(1, 20))
              => response.rebalancing_needed.rebalancing_needed)

\* C9 witness: the scenario answered with a drift above 5% and rebalancing_needed
C9_Witness ==
    /\ Returned
    /\ input_data = ScenarioRequest
    /\ RGt(response.optimal_weights[2], Rat(2, 5))
    /\ RGt(response.rebalancing_needed.total_drift, Rat(1, 20))
    /\ response.rebalancing_needed.rebalancing_needed

CorrelationReturned == corr_result # 0
BothTagged(tags) == AnyIn(tags, corr_args[1]) /\ AnyIn(tags, corr_args[2])

\* C10 (as claimed): every pair of bond-tagged symbols gets correlation 0.8
C10_BondPairIs80 ==
    (CorrelationReturned /\ BothTagged(bond_symbols)) => corr_result = 80

\* C10 (amended): every pair of bond-tagged symbols gets 0.8 unless both symbols
\* are also US-equity-tagged
C10_BondPairIs80UnlessBothEquity ==
    (CorrelationReturned /\ BothTagged(bond_symbols) /\ ~BothTagged(equity_symbols))
        => corr_result = 80

\* C10 witness: two bond-tagged symbols, the first of them equity-tagged as well
\* and the second not, get 0.8
C10_Witness ==
    /\ CorrelationReturned
    /\ BothTagged(bond_symbols)
    /\ AnyIn(equity_symbols, corr_args[1])
    /\ ~AnyIn(equity_symbols, corr_args[2])
    /\ corr_result = 80

(***************************************************************************)
(* Failure handling.                                                       *)
(***************************************************************************)
\* C11 (as claimed): the response to an empty or missing current_weights carries
\* success = false and an error field
C11_EmptyInputReportsFailure ==
    (pc = "done" /\ response.kind = "error") =>
        /\ "error" \in DOMAIN response
        /\ "success" \in DOMAIN response
        /\ response.success = FALSE

\* C12 (as claimed): every call of calculate_dynamic_allocation ends with a
\* response value, never with an exception
C12_NoExceptionPropagates ==
    pc = "done" => response.kind # "raised"

\* C13: a response with success = false that follows an escaped exception is the
\* full fallback: the request's current weights as given, the default metrics and
\* an error reason
C13_FullFallbackOnEscape ==
    (pc = "done" /\ response.kind = "fallback") =>
        /\ response.success = FALSE
        /\ response.optimal_weights = input_data.values
        /\ response.expected_return = Rat(2, 25)
        /\ response.expected_risk = Rat(3, 20)
        /\ response.sharpe_ratio = Rat(2, 5)
        /\ "error" \in DOMAIN response

\* C13 witness: the exception escaped after the final weights had been computed
\* and differed from the current ones, and the current ones were returned
C13_Witness ==
    /\ pc = "done"
    /\ response.kind = "fallback"
    /\ final_weights # <<>>
    /\ final_weights # current_weights
    /\ response.success = FALSE
    /\ response.optimal_weights = current_weights

\* the vector 1/N of the N symbols
IsEqualWeight(w) ==
    /\ Len(w) = Len(symbols)
    /\ \A i \in 1..Len(symbols) : w[i] = Rat(1, Len(symbols))

\* C14 (as claimed): the candidate of each optimizer that did not converge or
\* raised is the equal-weight vector
C14_FailedCandidateIsEqualWeight ==
    pc = "minvar_done" =>
        /\ "mean_variance" \in failed_methods => IsEqualWeight(mv_weights)
        /\ "risk_parity" \in failed_methods => IsEqualWeight(rp_weights)
        /\ "black_litterman" \in failed_methods => IsEqualWeight(bl_weights)
        /\ "minimum_variance" \in failed_methods => IsEqualWeight(min_var_weights)

(***************************************************************************)
(* Properties of calculate_allocation_changes and check_rebalancing_needed *)
(* called on their own.                                                    *)
(***************************************************************************)
ChangesReturned == response.kind = "changes"

\* new weight minus current weight of symbol s, a missing symbol counting as 0
WeightChange(s) ==
    RSub(IF s \in DOMAIN final_weights THEN final_weights[s] ELSE Zero,
         IF s \in DOMAIN current_weights THEN current_weights[s] ELSE Zero)

\* C15: every symbol of either map has an entry, whose action is BUY exactly when
\* the change exceeds 0.01, SELL exactly when it is below -0.01, HOLD otherwise
C15_ActionDeadband ==
    ChangesReturned =>
        /\ DOMAIN response.allocation_changes = DOMAIN current_weights \cup DOMAIN final_weights
        /\ \A s \in DOMAIN response.allocation_changes :
              LET action == response.allocation_changes[s].action
              IN  /\ action \in {"BUY", "SELL", "HOLD"}
                  /\ action = "BUY" <=> RGt(WeightChange(s), Rat(1, 100))
                  /\ action = "SELL" <=> RLt(WeightChange(s), Rat(-1, 100))

\* C15 witness: one symbol, missing from the new map, changes by exactly -0.01
\* and is HOLD; the other, missing from the current map, is bought
C15_Witness ==
    /\ ChangesReturned
    /\ SPY \in DOMAIN current_weights /\ SPY \notin DOMAIN final_weights
    /\ TLT \notin DOMAIN current_weights /\ TLT \in DOMAIN final_weights
    /\ WeightChange(SPY) = Rat(-1, 100)
    /\ response.allocation_changes[SPY].action = "HOLD"
    /\ response.allocation_changes[TLT].action = "BUY"

\* the drift over SPY and TLT, the only symbols of the maps that are called
DriftOfCall == RAdd(RAbs(WeightChange(SPY)), RAbs(WeightChange(TLT)))

\* C16: rebalancing_needed is true exactly when the total drift over the symbols
\* of both maps is strictly greater than 0.05
C16_RebalancingIffDriftAboveThreshold ==
    ChangesReturned =>
        /\ response.rebalancing_needed.total_drift = DriftOfCall
        /\ response.rebalancing_needed.rebalancing_needed <=> RGt(DriftOfCall, Rat(1, 20))

\* C16 witness: a drift of exactly 0.05, spread over a symbol missing from the
\* current map and one missing from the new map, does not ask for rebalancing
C16_Witness ==
    /\ ChangesReturned
    /\ DOMAIN current_weights = {SPY}
    /\ DOMAIN final_weights = {TLT}
    /\ DriftOfCall = Rat(1, 20)
    /\ ~response.rebalancing_needed.rebalancing_needed

(***************************************************************************)
(* Properties of the optimizer suite and of the constraint projection.     *)
(***************************************************************************)
OptimizerStages == {"mv_done", "rp_done", "bl_done", "minvar_done"}

\* C17: an optimizer that fails neither ends the call nor changes what the other
\* optimizers return, the blend is computed from the four candidates, and the call
\* goes on to a success response
C17_OptimizerFailureIsLocal ==
    /\ pc \in OptimizerStages => response = NoResponse
    /\ pc = "minvar_done" =>
          /\ "mean_variance" \notin failed_methods =>
                mv_weights \in mv_converged[Len(symbols)]
          /\ "risk_parity" \notin failed_methods =>
                rp_weights \in rp_converged[Len(symbols)]
          /\ "black_litterman" \notin failed_methods =>
                bl_weights \in bl_outcomes[Len(symbols)]
          /\ "minimum_variance" \notin failed_methods =>
                min_var_weights \in min_var_converged[Len(symbols)]
          /\ \A w \in {mv_weights, rp_weights, bl_weights, min_var_weights} :
                Len(w) = Len(symbols)
    /\ pc \in {"optimized", "tilted", "constrained"} =>
          /\ Len(optimal_weights) = Len(symbols)
          /\ response = NoResponse
    /\ Returned =>
          /\ response.success = TRUE
          /\ Len(optimal_weights) = Len(symbols)
          /\ Len(regime_adjusted_weights) = Len(symbols)
          /\ response.optimal_weights =
                apply_allocation_constraints(regime_adjusted_weights, current_weights)

\* C17 witness: a success response for two symbols, where none of the three SLSQP
\* solves can converge (no point within the bounds sums to 1), with a blend that
\* is not the equal-weight vector
C17_Witness ==
    /\ Returned
    /\ Len(symbols) = 2
    /\ mv_converged[2] = {} /\ rp_converged[2] = {} /\ min_var_converged[2] = {}
    /\ ~IsEqualWeight(optimal_weights)
    /\ \A i \in 1..2 : ~IsNaN(optimal_weights[i])
    /\ response.success = TRUE

\* the weights after steps (a), (b), (c) of apply_allocation_constraints
BoundedTarget == ensure_min_diversification(zero_below_min(cap_max_weight(regime_adjusted_weights)))

\* step (d) applied to the target w: every change from the current weights scaled
\* by max_turnover / turnover when the turnover of w exceeds max_turnover
TurnoverScaled(w) ==
    LET turnover == total_turnover(w, current_weights)
        scale == RDiv(allocation_constraints.max_turnover, turnover)
        Moved(i) == RAdd(current_weights[i], RMul(RSub(w[i], current_weights[i]), scale))
    IN  IF RGt(turnover, allocation_constraints.max_turnover) THEN Vec(Moved, Len(w)) ELSE w

\* step (e) applied to w: every weight divided by the total when it is positive
Renormalized(w) ==
    LET total == RSum(w)
        Share(i) == RDiv(w[i], total)
    IN  IF RGt(total, Zero) THEN Vec(Share, Len(w)) ELSE w

\* C18: the final weights are the renormalization (e) of the turnover scaling (d)
\* of the weights left by cap (a), zeroing (b) and diversification floor (c), the
\* turnover being measured on those
C18_ConstraintStepOrder ==
    pc \in {"constrained", "done"} /\ final_weights # <<>> =>
        final_weights = Renormalized(TurnoverScaled(BoundedTarget))

\* C18 witness: a call in which the cap and the turnover scaling both acted and a
\* final weight is above max_weight, no bound step having run after the scaling
C18_Witness ==
    /\ Returned
    /\ Len(symbols) = 3
    /\ cap_max_weight(regime_adjusted_weights) # regime_adjusted_weights
    /\ TurnoverLimited
    /\ \E i \in 1..Len(symbols) :
          RGt(final_weights[i], allocation_constraints.max_weight)

\* the positions that step (a) capped and that the turnover step left above max_weight
RecappedPositions ==
    {i \in 1..Len(symbols) :
        /\ RGt(regime_adjusted_weights[i], allocation_constraints.max_weight)
        /\ RGt(limit_turnover(BoundedTarget, current_weights)[i],
               allocation_constraints.max_weight)}

\* C19: a weight capped by step (a) is above max_weight again after the turnover
\* step only when that step scaled the changes and the current weight of the
\* symbol is itself above max_weight; the witness shows such a call exists
C19_RecapOnlyTowardCurrentWeight ==
    pc \in {"constrained", "done"} /\ final_weights # <<>> =>
        \A i \in RecappedPositions :
            /\ TurnoverLimited
            /\ RGt(current_weights[i], allocation_constraints.max_weight)

\* C19 witness: with three symbols, a weight capped at max_weight is above it after
\* the turnover step
C19_Witness ==
    /\ Returned
    /\ Len(symbols) = 3
    /\ RSum(current_weights) = One
    /\ RecappedPositions # {}

\* the adjustment the specification states for Bear
ClaimedBearAdjustment(symbol, regime_confidence) ==
    RAdd(RAdd(IF AnyIn(defensive_tags, symbol)
              THEN RMul(Rat(3, 20), regime_confidence) ELSE Zero,
              IF AnyIn(growth_tags, symbol)
              THEN RMul(Rat(-1, 10), regime_confidence) ELSE Zero),
         IF AnyIn(bond_tags, symbol)
         THEN RMul(Rat(1, 10), regime_confidence) ELSE Zero)

\* C20 (as claimed): under Bear every symbol is adjusted by +0.15c if defensive,
\* -0.10c if growth and +0.10c if bond, summed, before clipping and renormalization
C20_BearAdjustments ==
    (pc = "tilted" /\ input_data.market_regime = "Bear") =>
        \A i \in 1..Len(symbols) :
            tilt_adjustment(symbols[i], "Bear", input_data.regime_confidence)
                = ClaimedBearAdjustment(symbols[i], input_data.regime_confidence)

(***************************************************************************)
(* Properties of apply_regime_tilts called on its own.                     *)
(***************************************************************************)
TiltReturned == regime_adjusted_weights # <<>>

\* the adjustment the specification states for Bull
ClaimedBullAdjustment(symbol, regime_confidence) ==
    RAdd(IF AnyIn(growth_tags, symbol)
         THEN RMul(Rat(1, 10), regime_confidence) ELSE Zero,
         IF AnyIn(bond_tags, symbol)
         THEN RMul(Rat(-1, 20), regime_confidence) ELSE Zero)

\* w with the adjustment Adj(i) added to position i, clipped at 0 and renormalized
ClipAndRenormalize(w, Adj(_)) ==
    LET Shifted(i) == LET x == RAdd(w[i], Adj(i))
                      IN  IF RGt(x, Zero) THEN x ELSE Zero
        shifted == Vec(Shifted, Len(w))
        total == RSum(shifted)
        Share(i) == RDiv(shifted[i], total)
    IN  IF RGt(total, Zero) THEN Vec(Share, Len(w)) ELSE shifted

\* C21: under Bull with confidence c the returned weights are the clipped and
\* renormalized input weights plus 0.10 c on every growth-tagged symbol and
\* minus 0.05 c on every bond-tagged symbol, and plus nothing on any other symbol
C21_BullAdjustments ==
    (TiltReturned /\ input_data.market_regime = "Bull") =>
        LET Adj(i) == ClaimedBullAdjustment(symbols[i], input_data.regime_confidence)
        IN  /\ regime_adjusted_weights = ClipAndRenormalize(optimal_weights, Adj)
            /\ \A i \in 1..Len(symbols) :
                  ~AnyIn(growth_tags, symbols[i]) /\ ~AnyIn(bond_tags, symbols[i]) =>
                      tilt_adjustment(symbols[i], "Bull", input_data.regime_confidence) = Zero

\* C21 witness: a Bull call at confidence 1 on QQQ, TLT, SPY in which the growth
\* symbol gained, the bond symbol lost and the untagged symbol changed only by
\* the renormalization
C21_Witness ==
    /\ TiltReturned
    /\ input_data.market_regime = "Bull"
    /\ input_data.regime_confidence = One
    /\ symbols = <<QQQ, TLT, SPY>>
    /\ optimal_weights = <<Rat(1, 4), Rat(1, 2), Rat(1, 4)>>
    /\ regime_adjusted_weights = <<Rat(1, 3), Rat(3, 7), Rat(5, 21)>>

\* C22: under Volatile and under Stable, weights that are non-negative and sum
\* to 1 are returned as they were given, for every symbol, confidence and tag
C22_VolatileStableUnchanged ==
    (/\ TiltReturned
     /\ input_data.market_regime \in {"Volatile", "Stable"}
     /\ \A i \in 1..Len(symbols) : RGe(optimal_weights[i], Zero)
     /\ RSum(optimal_weights) = One) =>
        regime_adjusted_weights = optimal_weights

\* C22 witness: a Volatile call at confidence 1 on a growth, a bond and a
\* defensive tag, each with a positive weight, returned unchanged
C22_Witness ==
    /\ TiltReturned
    /\ input_data.market_regime = "Volatile"
    /\ input_data.regime_confidence = One
    /\ symbols = <<tlt_lower, ARKK, AGG>>
    /\ optimal_weights = <<Rat(1, 2), Rat(1, 4), Rat(1, 4)>>
    /\ regime_adjusted_weights = optimal_weights

(***************************************************************************)
(* Properties of estimate_asset_correlation: the US-international rule.    *)
(***************************************************************************)
\* C23 (as claimed): a pair of one US-equity symbol and one international-equity
\* symbol, in either order, has correlation 0.70
C23_USInternationalPairIs70 ==
    (/\ CorrelationReturned
     /\ \/ corr_args[1] \in equity_symbols /\ corr_args[2] \in international_symbols
        \/ corr_args[1] \in international_symbols /\ corr_args[2] \in equity_symbols) =>
        corr_result = 70

(***************************************************************************)
(* Properties of the Black-Litterman candidate and of the blend.           *)
(***************************************************************************)
\* C24 (as claimed): the Black-Litterman candidate has no negative weight and
\* sums to 1, whatever the unconstrained solution was
C24_BlackLittermanOnSimplex ==
    pc = "bl_done" =>
        /\ \A i \in 1..Len(bl_weights) : RGe(bl_weights[i], Zero)
        /\ RSum(bl_weights) = One

EnsembleReturned == mv_weights # <<>> /\ optimal_weights # <<>>

Candidates == <<mv_weights, rp_weights, bl_weights, min_var_weights>>

\* every candidate is non-negative and sums to 1
CandidatesOnSimplex ==
    \A m \in 1..4 :
        /\ \A i \in 1..Len(Candidates[m]) : RGe(Candidates[m][i], Zero)
        /\ RSum(Candidates[m]) = One

\* 0.30 mean-variance + 0.30 risk-parity + 0.20 Black-Litterman + 0.20 minimum-variance
ClaimedCombination(i) ==
    RAdd(RAdd(RMul(Rat(3, 10), mv_weights[i]), RMul(Rat(3, 10), rp_weights[i])),
         RAdd(RMul(Rat(1, 5), bl_weights[i]), RMul(Rat(1, 5), min_var_weights[i])))

\* the combination with negatives replaced by 0, divided by its sum
ClaimedBlend ==
    LET Clipped(i) == IF RLt(ClaimedCombination(i), Zero) THEN Zero
                      ELSE ClaimedCombination(i)
        clipped == Vec(Clipped, Len(mv_weights))
        total == RSum(clipped)
        Share(i) == RDiv(clipped[i], total)
    IN  Vec(Share, Len(mv_weights))

\* C25: the blend is the 0.30 / 0.30 / 0.20 / 0.20 combination, clipped and divided
\* by its sum; for candidates that are non-negative and sum to 1 it is
\* non-negative, sums to 1 and lies, symbol by symbol, between the smallest and
\* the largest candidate weight
C25_EnsembleBlend ==
    EnsembleReturned =>
        /\ optimal_weights = ClaimedBlend
        /\ CandidatesOnSimplex =>
              /\ RSum(optimal_weights) = One
              /\ \A i \in 1..Len(optimal_weights) :
                    /\ RGe(optimal_weights[i], Zero)
                    /\ \E m \in 1..4 : RLe(Candidates[m][i], optimal_weights[i])
                    /\ \E m \in 1..4 : RGe(Candidates[m][i], optimal_weights[i])

\* C25 witness: four different candidates on the simplex, blended to a vector
\* that is none of them
C25_Witness ==
    /\ EnsembleReturned
    /\ CandidatesOnSimplex
    /\ mv_weights = <<One, Zero>>
    /\ rp_weights = <<Rat(1, 2), Rat(1, 2)>>
    /\ bl_weights = <<Zero, One>>
    /\ min_var_weights = <<Rat(1, 4), Rat(3, 4)>>
    /\ optimal_weights = <<Rat(1, 2), Rat(1, 2)>>

(***************************************************************************)
(* Properties of the order of the stages of one call.                      *)
(***************************************************************************)
\* the positions of calculate_dynamic_allocation, in the order of its statements
StageSequence ==
    <<"idle", "received", "validated", "estimated", "mv_done", "rp_done", "bl_done",
      "minvar_done", "optimized", "tilted", "constrained", "done">>

StageRank(p) == CHOOSE k \in 1..Len(StageSequence) : StageSequence[k] = p

\* the four optimizers have each delivered a candidate for every symbol
AllCandidatesDelivered ==
    \A w \in {mv_weights, rp_weights, bl_weights, min_var_weights} :
        w # <<>> /\ Len(w) = Len(symbols)

\* C26: every step of a call moves to the next stage in the order Estimate,
\* mean-variance, risk parity, Black-Litterman, minimum variance, Blend, Tilt,
\* Project, Measure (or leaves the call); the blend starts only when the four
\* candidates are there; no step goes back to or repeats a stage
C26_StagesRunOnceInOrder ==
    [][/\ \/ StageRank(pc') = StageRank(pc) + 1
          \/ pc' = "done" /\ StageRank(pc) < StageRank("done")
       /\ pc' = "optimized" => AllCandidatesDelivered
       /\ pc' = "estimated" => correlation = <<>> /\ correlation' # <<>>
       /\ pc' = "optimized" => optimal_weights = <<>> /\ optimal_weights' # <<>>
       /\ pc' = "tilted" => regime_adjusted_weights = <<>> /\ regime_adjusted_weights' # <<>>
       /\ pc' = "constrained" => final_weights = <<>> /\ final_weights' # <<>>
       /\ pc' = "done" /\ pc = "constrained" => response = NoResponse /\ response' # NoResponse
      ]_vars

\* C26 witness: a call on three symbols that went through every stage and returned
C26_Witness ==
    /\ Returned
    /\ Len(symbols) = 3
    /\ Len(correlation) = 3
    /\ Len(optimal_weights) = 3
    /\ Len(regime_adjusted_weights) = 3
    /\ Len(response.optimal_weights) = 3
    /\ response.optimal_weights = final_weights

(***************************************************************************)
(* Termination of a call.                                                  *)
(***************************************************************************)
CallStarted == pc # "idle"

\* the call has left calculate_dynamic_allocation: by a return or, on input_data
\* that is no JSON object, by the exception of the handler
CallEnded == pc = "done" /\ response # NoResponse

RunAlone(q, mv, rp, bl, mnv) ==
    success_response(
        q,
        apply_allocation_constraints(
            apply_regime_tilts(q.keys, ensemble_optimization_methods(mv, rp, bl, mnv),
                               q.market_regime, q.regime_confidence),
            q.values))

\* C28: no call writes the configuration of the service or the current_weights
\* map it was given, and a call interleaved with another returns what it returns
\* alone
C28_CallsShareNoMutableState ==
    /\ service = ServiceConfiguration
    /\ \A c \in Calls :
          /\ pc[c] # "idle" => current_weights[c] = input_data[c].values
          /\ pc[c] = "done" =>
                response[c] = RunAlone(input_data[c], mv_weights[c], rp_weights[c],
                                       bl_weights[c], min_var_weights[c])

\* C28 witness: both calls have returned, on the same symbols under different
\* regimes, each with its own weights
C28_Witness ==
    /\ pc[1] = "done" /\ pc[2] = "done"
    /\ input_data[1].market_regime = "Bear"
    /\ input_data[2].market_regime = "Bull"
    /\ input_data[1].keys = input_data[2].keys
    /\ response[1].optimal_weights # response[2].optimal_weights

\* the requests q1 and q2 differ in risk_adjustment and in nothing else
DifferOnlyInRiskAdjustment(q1, q2) ==
    /\ q1.risk_adjustment # q2.risk_adjustment
    /\ [q1 EXCEPT !.risk_adjustment = q2.risk_adjustment] = q2

\* the optimizers of the calls c and d delivered the same candidates
SameCandidates(c, d) ==
    /\ mv_weights[c] = mv_weights[d]
    /\ rp_weights[c] = rp_weights[d]
    /\ bl_weights[c] = bl_weights[d]
    /\ min_var_weights[c] = min_var_weights[d]

\* C29: two calls whose requests differ only in risk_adjustment are handed the
\* same risk target and report the same regime_adjustments, and with the same
\* candidates from their optimizers they return the same response
C29_RiskAdjustmentIgnored ==
    \A c \in Calls : \A d \in Calls :
        (/\ pc[c] = "done" /\ pc[d] = "done"
         /\ DifferOnlyInRiskAdjustment(input_data[c], input_data[d])) =>
            /\ adjusted_risk_target_of(input_data[c]) = adjusted_risk_target_of(input_data[d])
            /\ response[c].regime_adjustments = response[d].regime_adjustments
            /\ SameCandidates(c, d) => response[c] = response[d]

\* C29 witness: two returned Bear calls with risk_adjustment 1 and 0.5, the same
\* candidates and the same response, whose risk target is 0.1008
C29_Witness ==
    /\ pc[1] = "done" /\ pc[2] = "done"
    /\ input_data[1].market_regime = "Bear"
    /\ input_data[1].risk_adjustment = One
    /\ input_data[2].risk_adjustment = Rat(1, 2)
    /\ DifferOnlyInRiskAdjustment(input_data[1], input_data[2])
    /\ SameCandidates(1, 2)
    /\ response[1] = response[2]
    /\ response[1].regime_adjustments.risk_adjustment = Rat(63, 625)

(***************************************************************************)
(* Properties of the keys of the weight maps.                              *)
(***************************************************************************)
\* the success response of lines 112-130 has been returned
KeysReturned == response.kind = "result" /\ response.success

\* the projection wrote to some key out of the order of symbols or to a proper
\* part of the keys: a weight was capped, zeroed or raised to the 5% floor
SomeKeyRewritten ==
    LET w == dict_values(regime_adjusted_weights)
    IN  \E i \in 1..Len(w) :
           \/ RGt(w[i], allocation_constraints.max_weight)
           \/ RLt(w[i], allocation_constraints.min_weight)

\* C30: in every success response the keys of optimal_weights are the keys of the
\* request's current_weights, in the same order, and so are the keys of the map
\* each stage hands on (the blend zipped with symbols, the tilted map, the
\* projected map); the values are those of the positional pipeline
C30_KeysAndOrderPreserved ==
    /\ optimal_weights # <<>> => dict_keys(optimal_weights) = dict_keys(input_data.items)
    /\ regime_adjusted_weights # <<>> =>
           dict_keys(regime_adjusted_weights) = dict_keys(input_data.items)
    /\ KeysReturned =>
           /\ dict_keys(response.optimal_weights) = dict_keys(input_data.items)
           /\ dict_keys(response.optimal_weights) = symbols
           /\ dict_values(response.optimal_weights) =
                  apply_allocation_constraints(
                      apply_regime_tilts(symbols, dict_values(optimal_weights),
                                         input_data.market_regime,
                                         input_data.regime_confidence),
                      dict_values(input_data.items))

\* a success response over four symbols, two of them differing only in case, whose
\* projection rewrote some keys and not in the order of symbols: the largest
\* weight is not on the first symbol and the tilted map broke a weight bound
C30_Witness ==
    /\ KeysReturned
    /\ Len(symbols) = 4
    /\ SomeKeyRewritten
    /\ RGt(dict_getitem(regime_adjusted_weights, GLD), Rat(2, 5))
    /\ dict_values(response.optimal_weights) # dict_values(optimal_weights)
    /\ dict_keys(response.optimal_weights) = <<TLT, tlt_lower, GLD, QQQ>>


====
